---- MODULE Spec2Model ----
(***************************************************************************)
(* SMSOTPServer: the message ingestion server (core/server.py,             *)
(* core/message_processor.py, utils.py) and the notification throttler     *)
(* (notification_manager.py), as state machines.                           *)
(*                                                                         *)
(* The specifications share the variables:                                 *)
(*   SpecStats   connection handlers running concurrently on one stats     *)
(*               dict (SMSServer._handle_client, MessageProcessor), and    *)
(*               a thread calling get_stats                                *)
(*   SpecServe   start() with its accept loop, and the handlers of the     *)
(*               connections it accepts                                    *)
(*   SpecNotify  NotificationManager.show_notification callers and the     *)
(*               _process_queue threads, with a clock                      *)
(*   SpecLife    SMSServer.start/stop/restart/force_quit called from       *)
(*               control threads, with the accept loop                     *)
(*   SpecNotifyFair   SpecNotify with every thread and the clock           *)
(*               scheduled fairly                                          *)
(*   SpecText    process_message (up to the dispatch) and                  *)
(*               extract_first_long_number called on bounded texts         *)
(*   SpecStopServe    start() on a stopped server, stop() at any time,     *)
(*               and the handlers of the accepted connections              *)
(*   SpecAcceptError  the same, with the outcomes of accept() told apart   *)
(* Python threads interleave between bytecodes, so every read and every    *)
(* write of a shared attribute is a step of its own.                       *)
(***************************************************************************)
EXTENDS Integers, Sequences, FiniteSets, TLC

VARIABLES
    \* ---- SMSServer.stats and the connection handlers
    stats,          \* server.py:22 the stats dict
    hpc,            \* handler -> position in _handle_client / process_message
    hdata,          \* handler -> bytes returned by recv(1024)
    hkind,          \* handler -> prefix found by process_message
    hsuffix,        \* handler -> suffix found by process_message
    htmp,           \* handler -> value loaded by  stats[k] += 1  before the store
    hret,           \* handler -> return value of process_message
    connOpen,       \* handler -> client_socket not yet closed
    clipboard,      \* pyperclip's clipboard content
    lastCopied,     \* utils._last_copied
    notes,          \* calls made to the notification functions, in order
    snaps,          \* the dicts returned by get_stats() so far
    \* ---- NotificationManager
    now,                    \* time.time(), in ticks of 0.5 s
    last_notification_time, \* notification_manager.py:18
    notification_queue,     \* notification_manager.py:19
    is_processing,          \* notification_manager.py:20
    npc,            \* thread -> position in show_notification / _process_queue
    ncur,           \* thread -> its local current_time
    nreq,           \* thread -> the request it is showing
    nwake,          \* thread -> end of its time.sleep
    nextReq,        \* number of show_notification calls made by callers so far
    reqBy,          \* request -> caller thread that made the call
    reqAt,          \* request -> current_time of that call (line 49)
    reqAhead,       \* request -> the requests waiting in the queue at that call
    appended,       \* requests in the order they were appended to the queue
    delivered,      \* hand-overs to toast.show(): <<request, current_time, shown>>
    \* ---- SMSServer lifecycle
    running,        \* server.py:20
    force_exit,     \* server.py:21
    server_socket,  \* server.py:19  (0 is None)
    sockState,      \* socket id -> "new" | "listening" | "closed"
    nextSock,       \* number of sockets created so far
    tpc,            \* control thread -> position in start/stop/restart/force_quit
    top,            \* control thread -> the public method it is running
    tsock,          \* control thread -> socket it is blocked on in accept() (0: none)
    calls,          \* public methods called so far: <<method, state at the call>>
    portFree,       \* the port is not held by another process
    accepted,       \* number of connections accepted so far
    berr,           \* control thread -> its start() caught an exception at line 71
    tret,           \* control thread -> what its last call gave its caller
    \* ---- the text functions called on their own
    ptext,          \* the text passed to the function
    pfun,           \* the function called
    pout,           \* what the call gave
    \* ---- the entry points main.py and main_tray.py
    argPort,        \* args.port
    cfgPort,        \* the "port" entry of the configuration file
    mfun,           \* the entry point that ran
    mout,           \* what it did: returned 1, raised, or started a server
    \* ---- handlers and stop()
    late,           \* handlers whose recv() returned after a stop() had returned
    errAt,          \* connections accepted so far when accept() first raised an
                    \* error on a serving socket; -1 before
    gen             \* the start() executions numbered: run the latest one, of[t]
                    \* the one thread t runs, sock[x] the one that created socket x

statsVars == <<stats, hpc, hdata, hkind, hsuffix, htmp, hret, connOpen,
               clipboard, lastCopied, notes, snaps>>
notifyVars == <<now, last_notification_time, notification_queue, is_processing,
                npc, ncur, nreq, nwake, nextReq, reqBy, reqAt, reqAhead,
                appended, delivered>>
lifeVars == <<running, force_exit, server_socket, sockState, nextSock, tpc, top,
              tsock, calls, portFree, accepted, berr, tret>>
textVars == <<ptext, pfun, pout>>
mainVars == <<argPort, cfgPort, mfun, mout>>
ghostVars == <<late, errAt, gen>>
vars == <<statsVars, notifyVars, lifeVars, textVars, mainVars, ghostVars>>

Range(s) == {s[i] : i \in 1..Len(s)}

(***************************************************************************)
(* Text.  A text is a sequence of one-character strings; "#" stands for a  *)
(* byte that is not valid UTF-8.                                           *)
(***************************************************************************)
Digits == {"0", "1", "2", "3", "4", "5", "6", "7", "8", "9"}
Whitespace == {" "}
BadByte == "#"
None == <<"None">>

\* str.strip(): drop leading and trailing whitespace
RECURSIVE LStrip(_)
LStrip(s) == IF s # <<>> /\ Head(s) \in Whitespace THEN LStrip(Tail(s)) ELSE s
RECURSIVE RStrip(_)
RStrip(s) ==
    IF s # <<>> /\ s[Len(s)] \in Whitespace
    THEN RStrip(SubSeq(s, 1, Len(s) - 1)) ELSE s
Strip(s) == RStrip(LStrip(s))

\* message_processor.py:31-32
StripBraces(s) ==
    IF s # <<>> /\ Head(s) = "{" /\ s[Len(s)] = "}"
    THEN SubSeq(s, 2, Len(s) - 1) ELSE s

\* text.rfind("."): index of the last dot, 0 when there is none
LastDot(s) ==
    IF \E i \in 1..Len(s) : s[i] = "."
    THEN CHOOSE i \in 1..Len(s) : s[i] = "." /\ \A j \in (i + 1)..Len(s) : s[j] # "."
    ELSE 0

\* text.find("."): index of the first dot, 0 when there is none
FirstDot(s) ==
    IF \E i \in 1..Len(s) : s[i] = "."
    THEN CHOOSE i \in 1..Len(s) : s[i] = "." /\ \A j \in 1..(i - 1) : s[j] # "."
    ELSE 0

\* message_processor.py:47-63
split_string_at_first_dot(s) ==
    IF FirstDot(s) = 0 THEN None
    ELSE <<SubSeq(s, 1, FirstDot(s) - 1), SubSeq(s, FirstDot(s) + 1, Len(s))>>

\* the end of a match of \d{4}: not greedy
RunEnd_Four(s, i) == i + 3

\* utils.py:27-33  re.search(r'\d{4,}', text): leftmost match, greedy
RunEnd(s, i) ==
    CHOOSE j \in i..Len(s) :
        /\ \A k \in i..j : s[k] \in Digits
        /\ (j = Len(s) \/ s[j + 1] \notin Digits)
MatchAt(s, i) ==
    /\ i + 3 <= Len(s)
    /\ \A k \in i..(i + 3) : s[k] \in Digits
extract_first_long_number(s) ==
    IF \E i \in 1..Len(s) : MatchAt(s, i)
    THEN LET i == CHOOSE i \in 1..Len(s) :
                      MatchAt(s, i) /\ \A j \in 1..(i - 1) : ~MatchAt(s, j)
         IN SubSeq(s, i, RunEnd(s, i))
    ELSE None

SMS == <<"S", "M", "S">>
CALL == <<"C", "A", "L", "L">>

\* the payloads a client may send
Payloads ==
    { <<>>,                                                   \* nothing sent
      <<"S", "M", "S", ".", "a", "4", "8", "2", "9">>,        \* SMS.a4829
      <<"{", "S", "M", "S", ".", "1", "2", "}">>,             \* {SMS.12}
      <<"S", "M", "S", ".", "5", "5", "5", "5">>,             \* SMS.5555
      <<"C", "A", "L", "L", ".", "5", ".", "5">>,             \* CALL.5.5
      <<"P", "I", "N", "G", ".", "x">>,                       \* PING.x
      <<" ", "S", "M", "S", " ">>,                            \* no dot
      <<"S", "M", "S", ".", BadByte>> }                       \* not UTF-8


(***************************************************************************)
(* Bounds and program constants                                            *)
(***************************************************************************)
NHandlers == 3          \* connection handler threads
MaxSnap == 1            \* get_stats calls made in one run
Handlers == 1..NHandlers

\* server.py:22-27
InitStats == [start_time |-> 0, last_activity |-> 0, sms_count |-> 0, call_count |-> 0]

Note(kind, title, body) == [kind |-> kind, title |-> title, body |-> body]

(***************************************************************************)
(* SMSServer._handle_client and MessageProcessor.process_message           *)
(***************************************************************************)
\* message_processor.py:30-35
ParseMessage(text) == split_string_at_first_dot(StripBraces(Strip(text)))

\* DispatchOf with the two branches exchanged
DispatchOf_Swapped(prefix) ==
    IF prefix = CALL THEN "sms_load"
    ELSE IF prefix = SMS THEN "call_load"
    ELSE "close"

\* DispatchOf that counts an unknown prefix as a call
DispatchOf_CountUnknown(prefix) ==
    IF prefix = SMS THEN "sms_load" ELSE "call_load"

\* message_processor.py:77, 85, 99: where _handle_message_type goes for a prefix
DispatchOf(prefix) ==
    IF prefix = CALL THEN "call_load"
    ELSE IF prefix = SMS THEN "sms_load"
    ELSE "close"

\* HRecv without the test of lines 80-83
HRecv_NoEmptyCheck(h) ==
    /\ hpc[h] = "recv"
    /\ \A g \in Handlers : g < h => hpc[g] # "recv"
    /\ \E d \in Payloads :
        /\ hdata' = [hdata EXCEPT ![h] = d]
        /\ IF BadByte \in Range(d)
           THEN /\ connOpen' = [connOpen EXCEPT ![h] = FALSE]
                /\ hpc' = [hpc EXCEPT ![h] = "done"]
           ELSE /\ hpc' = [hpc EXCEPT ![h] = "touch"]
                /\ UNCHANGED connOpen
    /\ UNCHANGED <<stats, hkind, hsuffix, htmp, hret, clipboard, lastCopied, notes>>

\* HRecv for a connection that stop() cuts off: the read returns only while
\* the server is running
HRecv_OnlyWhileRunning(h) ==
    /\ running
    /\ hpc[h] = "recv"
    /\ \A g \in Handlers : g < h => hpc[g] # "recv"
    /\ \E d \in Payloads :
        /\ hdata' = [hdata EXCEPT ![h] = d]
        /\ IF d = <<>>
           THEN /\ connOpen' = [connOpen EXCEPT ![h] = FALSE]
                /\ hpc' = [hpc EXCEPT ![h] = "done"]
           ELSE IF BadByte \in Range(d)
           THEN /\ connOpen' = [connOpen EXCEPT ![h] = FALSE]
                /\ hpc' = [hpc EXCEPT ![h] = "done"]
           ELSE /\ hpc' = [hpc EXCEPT ![h] = "touch"]
                /\ UNCHANGED connOpen
    /\ UNCHANGED <<stats, hkind, hsuffix, htmp, hret, clipboard, lastCopied, notes>>

\* server.py:79-85: the single read and the decoding (the handler threads are
\* interchangeable: they take their first step in the order of their numbers)
HRecv(h) ==
    /\ hpc[h] = "recv"
    /\ \A g \in Handlers : g < h => hpc[g] # "recv"
    /\ \E d \in Payloads :
        /\ hdata' = [hdata EXCEPT ![h] = d]
        /\ IF d = <<>>
           THEN \* line 80-83: nothing sent, close and return
                /\ connOpen' = [connOpen EXCEPT ![h] = FALSE]
                /\ hpc' = [hpc EXCEPT ![h] = "done"]
           ELSE IF BadByte \in Range(d)
           THEN \* line 85 raises, line 94-98: logged, the socket is closed
                /\ connOpen' = [connOpen EXCEPT ![h] = FALSE]
                /\ hpc' = [hpc EXCEPT ![h] = "done"]
           ELSE /\ hpc' = [hpc EXCEPT ![h] = "touch"]
                /\ UNCHANGED connOpen
    /\ UNCHANGED <<stats, hkind, hsuffix, htmp, hret, clipboard, lastCopied, notes>>

\* server.py:89
HTouch(h) ==
    /\ hpc[h] = "touch"
    /\ stats' = [stats EXCEPT !.last_activity = now]
    /\ hpc' = [hpc EXCEPT ![h] = "parse"]
    /\ UNCHANGED <<hdata, hkind, hsuffix, htmp, hret, connOpen, clipboard,
                   lastCopied, notes>>

\* server.py:92, message_processor.py:28-41 and the branch of lines 77-101
HParse(h) ==
    /\ hpc[h] = "parse"
    /\ LET m == ParseMessage(hdata[h]) IN
        IF m = None
        THEN /\ hpc' = [hpc EXCEPT ![h] = "close"]
             /\ UNCHANGED <<hkind, hsuffix>>
        ELSE /\ hkind' = [hkind EXCEPT ![h] = m[1]]
             /\ hsuffix' = [hsuffix EXCEPT ![h] = m[2]]
             /\ hpc' = [hpc EXCEPT ![h] = DispatchOf(m[1])]
    /\ UNCHANGED <<stats, hdata, htmp, hret, connOpen, clipboard, lastCopied, notes>>

\* stats[key] += 1 is a load, an add and a store: the load
IncLoad(h, key, from, to) ==
    /\ hpc[h] = from
    /\ htmp' = [htmp EXCEPT ![h] = stats[key]]
    /\ hpc' = [hpc EXCEPT ![h] = to]
    /\ UNCHANGED <<stats, hdata, hkind, hsuffix, hret, connOpen, clipboard,
                   lastCopied, notes>>

\* ... and the store of the loaded value plus one
IncStore(h, key, from, to) ==
    /\ hpc[h] = from
    /\ stats' = [stats EXCEPT ![key] = htmp[h] + 1]
    /\ hpc' = [hpc EXCEPT ![h] = to]
    /\ UNCHANGED <<hdata, hkind, hsuffix, htmp, hret, connOpen, clipboard,
                   lastCopied, notes>>

\* message_processor.py:79
HCallLoad(h) == IncLoad(h, "call_count", "call_load", "call_store")
HCallStore(h) == IncStore(h, "call_count", "call_store", "call_notify")

\* message_processor.py:80-83, utils.py:79-84
HCallNotify(h) ==
    /\ hpc[h] = "call_notify"
    /\ notes' = Append(notes, Note("info", hsuffix[h], hsuffix[h]))
    /\ hret' = [hret EXCEPT ![h] = TRUE]
    /\ hpc' = [hpc EXCEPT ![h] = "close"]
    /\ UNCHANGED <<stats, hdata, hkind, hsuffix, htmp, connOpen, clipboard, lastCopied>>

\* HSmsStore that goes straight on to the success notification
HSmsStore_SkipCopy(h) == IncStore(h, "sms_count", "sms_store", "sms_notify")

\* message_processor.py:87
HSmsLoad(h) == IncLoad(h, "sms_count", "sms_load", "sms_store")
HSmsStore(h) == IncStore(h, "sms_count", "sms_store", "sms_copy")

\* HSmsCopy in which a failed clipboard write also discards the notifications
\* requested so far
HSmsCopy_FailureDropsNotes(h) ==
    /\ hpc[h] = "sms_copy"
    /\ LET number == extract_first_long_number(hsuffix[h]) IN
        IF number # None
        THEN \E copied \in BOOLEAN :
              IF copied
              THEN
                   /\ clipboard' = number
                   /\ hpc' = [hpc EXCEPT ![h] = "sms_record"]
                   /\ UNCHANGED <<notes, hret>>
              ELSE
                   /\ notes' = <<Note("error", None, None)>>
                   /\ hret' = [hret EXCEPT ![h] = FALSE]
                   /\ hpc' = [hpc EXCEPT ![h] = "close"]
                   /\ UNCHANGED clipboard
        ELSE
             /\ notes' = Append(notes, Note("error", None, None))
             /\ hret' = [hret EXCEPT ![h] = FALSE]
             /\ hpc' = [hpc EXCEPT ![h] = "close"]
             /\ UNCHANGED clipboard
    /\ UNCHANGED <<stats, hdata, hkind, hsuffix, htmp, connOpen, lastCopied>>

\* HSmsCopy that copies the whole text instead of the extracted number
HSmsCopy_WholeText(h) ==
    /\ hpc[h] = "sms_copy"
    /\ LET number == extract_first_long_number(hsuffix[h]) IN
        IF number # None
        THEN \E copied \in BOOLEAN :
              IF copied
              THEN
                   /\ clipboard' = hsuffix[h]
                   /\ hpc' = [hpc EXCEPT ![h] = "sms_record"]
                   /\ UNCHANGED <<notes, hret>>
              ELSE
                   /\ notes' = Append(notes, Note("error", None, None))
                   /\ hret' = [hret EXCEPT ![h] = FALSE]
                   /\ hpc' = [hpc EXCEPT ![h] = "close"]
                   /\ UNCHANGED clipboard
        ELSE
             /\ notes' = Append(notes, Note("error", None, None))
             /\ hret' = [hret EXCEPT ![h] = FALSE]
             /\ hpc' = [hpc EXCEPT ![h] = "close"]
             /\ UNCHANGED clipboard
    /\ UNCHANGED <<stats, hdata, hkind, hsuffix, htmp, connOpen, lastCopied>>

\* HSmsCopy that reports a text without a code as handled
HSmsCopy_NoCodeIsSuccess(h) ==
    /\ hpc[h] = "sms_copy"
    /\ LET number == extract_first_long_number(hsuffix[h]) IN
        IF number # None
        THEN \E copied \in BOOLEAN :
              IF copied
              THEN
                   /\ clipboard' = number
                   /\ hpc' = [hpc EXCEPT ![h] = "sms_record"]
                   /\ UNCHANGED <<notes, hret>>
              ELSE
                   /\ notes' = Append(notes, Note("error", None, None))
                   /\ hret' = [hret EXCEPT ![h] = FALSE]
                   /\ hpc' = [hpc EXCEPT ![h] = "close"]
                   /\ UNCHANGED clipboard
        ELSE
             /\ notes' = Append(notes, Note("error", None, None))
             /\ hret' = [hret EXCEPT ![h] = TRUE]
             /\ hpc' = [hpc EXCEPT ![h] = "close"]
             /\ UNCHANGED clipboard
    /\ UNCHANGED <<stats, hdata, hkind, hsuffix, htmp, connOpen, lastCopied>>

\* HSmsCopy that goes on to the success notification after a failed copy
HSmsCopy_FailureAlsoSuccess(h) ==
    /\ hpc[h] = "sms_copy"
    /\ LET number == extract_first_long_number(hsuffix[h]) IN
        IF number # None
        THEN \E copied \in BOOLEAN :
              IF copied
              THEN
                   /\ clipboard' = number
                   /\ hpc' = [hpc EXCEPT ![h] = "sms_record"]
                   /\ UNCHANGED <<notes, hret>>
              ELSE
                   /\ notes' = Append(notes, Note("error", None, None))
                   /\ UNCHANGED hret
                   /\ hpc' = [hpc EXCEPT ![h] = "sms_notify"]
                   /\ UNCHANGED clipboard
        ELSE
             /\ notes' = Append(notes, Note("error", None, None))
             /\ hret' = [hret EXCEPT ![h] = FALSE]
             /\ hpc' = [hpc EXCEPT ![h] = "close"]
             /\ UNCHANGED clipboard
    /\ UNCHANGED <<stats, hdata, hkind, hsuffix, htmp, connOpen, lastCopied>>

\* message_processor.py:89, utils.py:95-112 and 131-137: copy_verification_code up
\* to the clipboard write, and its two failure returns with message_processor.py:
\* 94-97
HSmsCopy(h) ==
    /\ hpc[h] = "sms_copy"
    /\ LET number == extract_first_long_number(hsuffix[h]) IN
        IF number # None
        THEN \E copied \in BOOLEAN :
              IF copied
              THEN \* utils.py:102
                   /\ clipboard' = number
                   /\ hpc' = [hpc EXCEPT ![h] = "sms_record"]
                   /\ UNCHANGED <<notes, hret>>
              ELSE \* utils.py:106-112: pyperclip.copy raised
                   /\ notes' = Append(notes, Note("error", None, None))
                   /\ hret' = [hret EXCEPT ![h] = FALSE]
                   /\ hpc' = [hpc EXCEPT ![h] = "close"]
                   /\ UNCHANGED clipboard
        ELSE \* utils.py:131-137
             /\ notes' = Append(notes, Note("error", None, None))
             /\ hret' = [hret EXCEPT ![h] = FALSE]
             /\ hpc' = [hpc EXCEPT ![h] = "close"]
             /\ UNCHANGED clipboard
    /\ UNCHANGED <<stats, hdata, hkind, hsuffix, htmp, connOpen, lastCopied>>

\* utils.py:103: _last_copied = number
HSmsRecord(h) ==
    /\ hpc[h] = "sms_record"
    /\ lastCopied' = extract_first_long_number(hsuffix[h])
    /\ hpc' = [hpc EXCEPT ![h] = "sms_notify"]
    /\ UNCHANGED <<stats, hdata, hkind, hsuffix, htmp, hret, connOpen, clipboard, notes>>

\* utils.py:115-130 the success notification and return number,
\* message_processor.py:90-93
HSmsNotify(h) ==
    /\ hpc[h] = "sms_notify"
    /\ LET number == extract_first_long_number(hsuffix[h]) IN
        notes' = Append(notes, Note("success", number, StripBraces(hsuffix[h])))
    /\ hret' = [hret EXCEPT ![h] = TRUE]
    /\ hpc' = [hpc EXCEPT ![h] = "close"]
    /\ UNCHANGED <<stats, hdata, hkind, hsuffix, htmp, connOpen, clipboard, lastCopied>>

\* HClose without the close() of line 98
HClose_Leak(h) ==
    /\ hpc[h] = "close"
    /\ hpc' = [hpc EXCEPT ![h] = "done"]
    /\ UNCHANGED <<stats, hdata, hkind, hsuffix, htmp, hret, connOpen, clipboard,
                   lastCopied, notes>>

\* server.py:96-100
HClose(h) ==
    /\ hpc[h] = "close"
    /\ connOpen' = [connOpen EXCEPT ![h] = FALSE]
    /\ hpc' = [hpc EXCEPT ![h] = "done"]
    /\ UNCHANGED <<stats, hdata, hkind, hsuffix, htmp, hret, clipboard, lastCopied, notes>>

\* utils.py:140-142
get_last_copied_code == lastCopied

\* server.py:129-131: dict.copy() is one step
get_stats == stats

\* a status query on another thread calls get_stats()
Snapshot ==
    /\ Len(snaps) < MaxSnap
    /\ snaps' = Append(snaps, get_stats)
    /\ UNCHANGED <<stats, hpc, hdata, hkind, hsuffix, htmp, hret, connOpen,
                   clipboard, lastCopied, notes>>


(***************************************************************************)
(* NotificationManager (notification_manager.py).  Time is counted in      *)
(* ticks of 0.5 s; time.sleep(0.1) is shorter than a tick and may end      *)
(* within the tick it began in.  A thread is a caller of show_notification *)
(* or a _process_queue thread started at line 63.                          *)
(***************************************************************************)
MinInterval == 2        \* min_interval = 1.0 s
SleepShown == 1         \* time.sleep(0.5)
SleepWait == 0          \* time.sleep(0.1)
StartTime == 2          \* the clock when the manager is created
MaxTime == 7            \* the clock stops here
NCallers == 1           \* threads calling show_notification
MaxReq == 3             \* show_notification calls made by callers
MaxLoops == 2           \* _process_queue threads alive at once

Callers == 1..NCallers
Loops == (NCallers + 1)..(NCallers + MaxLoops)
NThreads == Callers \cup Loops
Reqs == 1..MaxReq

\* the statement a thread runs after show_notification returns
Return(t) == IF t \in Callers THEN "idle" ELSE "pq_sleep"
\* line 128: the loop sleeps 0.5 s after the call
WakeAfterReturn(t) == IF t \in Callers THEN 0 ELSE now + SleepShown

\* a caller thread calls show_notification; line 49 reads the clock
NCall(c) ==
    /\ c \in Callers
    /\ npc[c] = "idle"
    /\ nextReq < MaxReq
    /\ nextReq' = nextReq + 1
    /\ reqBy' = [reqBy EXCEPT ![nextReq + 1] = c]
    /\ reqAt' = [reqAt EXCEPT ![nextReq + 1] = now]
    /\ reqAhead' = [reqAhead EXCEPT ![nextReq + 1] = Range(notification_queue)]
    /\ nreq' = [nreq EXCEPT ![c] = nextReq + 1]
    /\ ncur' = [ncur EXCEPT ![c] = now]
    /\ npc' = [npc EXCEPT ![c] = "sn_check"]
    /\ UNCHANGED <<now, last_notification_time, notification_queue, is_processing,
                   nwake, appended, delivered>>

\* line 49 in the call made by _process_queue at line 119
NTime(t) ==
    /\ npc[t] = "sn_time"
    /\ ncur' = [ncur EXCEPT ![t] = now]
    /\ npc' = [npc EXCEPT ![t] = "sn_check"]
    /\ UNCHANGED <<now, last_notification_time, notification_queue, is_processing,
                   nreq, nwake, nextReq, reqBy, reqAt, reqAhead, appended, delivered>>

\* line 50
TooSoon(cur) == cur - last_notification_time < MinInterval

NCheck(t) ==
    /\ npc[t] = "sn_check"
    /\ npc' = [npc EXCEPT ![t] = IF TooSoon(ncur[t]) THEN "sn_append" ELSE "sn_update"]
    /\ UNCHANGED <<now, last_notification_time, notification_queue, is_processing,
                   ncur, nreq, nwake, nextReq, reqBy, reqAt, reqAhead, appended, delivered>>

\* line 52-59
NAppend(t) ==
    /\ npc[t] = "sn_append"
    /\ notification_queue' = Append(notification_queue, nreq[t])
    /\ appended' = Append(appended, nreq[t])
    /\ npc' = [npc EXCEPT ![t] = "sn_spawn"]
    /\ UNCHANGED <<now, last_notification_time, is_processing, ncur, nreq, nwake,
                   nextReq, reqBy, reqAt, reqAhead, delivered>>

FreeLoops == {l \in Loops : npc[l] = "free"}

\* line 62-64: start a _process_queue thread unless the flag is set, return True.
\* The started thread has not run line 109 yet.
NSpawn(t) ==
    /\ npc[t] = "sn_spawn"
    /\ IF is_processing
       THEN npc' = [npc EXCEPT ![t] = Return(t)]
       ELSE \E l \in FreeLoops :
                npc' = [npc EXCEPT ![t] = Return(t), ![l] = "pq_start"]
    /\ nwake' = [nwake EXCEPT ![t] = WakeAfterReturn(t)]
    /\ nreq' = [nreq EXCEPT ![t] = 0]
    /\ ncur' = [ncur EXCEPT ![t] = 0]
    /\ UNCHANGED <<now, last_notification_time, notification_queue, is_processing,
                   nextReq, reqBy, reqAt, reqAhead, appended, delivered>>

\* line 67
NUpdate(t) ==
    /\ npc[t] = "sn_update"
    /\ last_notification_time' = ncur[t]
    /\ npc' = [npc EXCEPT ![t] = "sn_show"]
    /\ UNCHANGED <<now, notification_queue, is_processing, ncur, nreq, nwake,
                   nextReq, reqBy, reqAt, reqAhead, appended, delivered>>

\* NShow that puts a request whose delivery failed back into the queue
NShow_RequeueOnFailure(t) ==
    /\ npc[t] = "sn_show"
    /\ \E ok \in BOOLEAN :
        /\ delivered' = Append(delivered, <<nreq[t], ncur[t], ok>>)
        /\ notification_queue' = IF ok THEN notification_queue
                                  ELSE Append(notification_queue, nreq[t])
    /\ npc' = [npc EXCEPT ![t] = Return(t)]
    /\ nwake' = [nwake EXCEPT ![t] = WakeAfterReturn(t)]
    /\ nreq' = [nreq EXCEPT ![t] = 0]
    /\ ncur' = [ncur EXCEPT ![t] = 0]
    /\ UNCHANGED <<now, last_notification_time, is_processing,
                   nextReq, reqBy, reqAt, reqAhead, appended>>

\* line 70-105: the toast is handed to the notifier; toast.show() returns and
\* line 101 returns True, or it raises and line 103-105 returns False.  Either
\* way the call is over.
NShow(t) ==
    /\ npc[t] = "sn_show"
    /\ \E ok \in BOOLEAN :
        delivered' = Append(delivered, <<nreq[t], ncur[t], ok>>)
    /\ npc' = [npc EXCEPT ![t] = Return(t)]
    /\ nwake' = [nwake EXCEPT ![t] = WakeAfterReturn(t)]
    /\ nreq' = [nreq EXCEPT ![t] = 0]
    /\ ncur' = [ncur EXCEPT ![t] = 0]
    /\ UNCHANGED <<now, last_notification_time, notification_queue, is_processing,
                   nextReq, reqBy, reqAt, reqAhead, appended>>

\* line 109
PStart(l) ==
    /\ npc[l] = "pq_start"
    /\ is_processing' = TRUE
    /\ npc' = [npc EXCEPT ![l] = "pq_while"]
    /\ UNCHANGED <<now, last_notification_time, notification_queue, ncur, nreq,
                   nwake, nextReq, reqBy, reqAt, reqAhead, appended, delivered>>

\* line 111
PWhile(l) ==
    /\ npc[l] = "pq_while"
    /\ npc' = [npc EXCEPT ![l] = IF notification_queue # <<>> THEN "pq_time"
                                                               ELSE "pq_clear"]
    /\ UNCHANGED <<now, last_notification_time, notification_queue, is_processing,
                   ncur, nreq, nwake, nextReq, reqBy, reqAt, reqAhead, appended, delivered>>

\* line 112
PTime(l) ==
    /\ npc[l] = "pq_time"
    /\ ncur' = [ncur EXCEPT ![l] = now]
    /\ npc' = [npc EXCEPT ![l] = "pq_check"]
    /\ UNCHANGED <<now, last_notification_time, notification_queue, is_processing,
                   nreq, nwake, nextReq, reqBy, reqAt, reqAhead, appended, delivered>>

\* line 115
MayShow(cur) == cur - last_notification_time >= MinInterval

\* line 115, and line 131 when it is too early
PCheck(l) ==
    /\ npc[l] = "pq_check"
    /\ IF MayShow(ncur[l])
       THEN /\ npc' = [npc EXCEPT ![l] = "pq_pop"]
            /\ UNCHANGED nwake
       ELSE /\ npc' = [npc EXCEPT ![l] = "pq_sleep"]
            /\ nwake' = [nwake EXCEPT ![l] = now + SleepWait]
    /\ ncur' = [ncur EXCEPT ![l] = 0]
    /\ UNCHANGED <<now, last_notification_time, notification_queue, is_processing,
                   nreq, nextReq, reqBy, reqAt, reqAhead, appended, delivered>>

\* line 116: pop(0) raises IndexError on an empty list and the thread dies
PPop(l) ==
    /\ npc[l] = "pq_pop"
    /\ IF notification_queue = <<>>
       THEN /\ npc' = [npc EXCEPT ![l] = "dead"]
            /\ UNCHANGED <<notification_queue, nreq>>
       ELSE /\ nreq' = [nreq EXCEPT ![l] = Head(notification_queue)]
            /\ notification_queue' = Tail(notification_queue)
            /\ npc' = [npc EXCEPT ![l] = "sn_time"]
    /\ UNCHANGED <<now, last_notification_time, is_processing, ncur, nwake,
                   nextReq, reqBy, reqAt, reqAhead, appended, delivered>>

\* the end of time.sleep at line 128 or 131, back to line 111
PWake(l) ==
    /\ npc[l] = "pq_sleep"
    /\ now >= nwake[l]
    /\ npc' = [npc EXCEPT ![l] = "pq_while"]
    /\ nwake' = [nwake EXCEPT ![l] = 0]
    /\ UNCHANGED <<now, last_notification_time, notification_queue, is_processing,
                   ncur, nreq, nextReq, reqBy, reqAt, reqAhead, appended, delivered>>

\* line 133; the thread ends
PClear(l) ==
    /\ npc[l] = "pq_clear"
    /\ is_processing' = FALSE
    /\ npc' = [npc EXCEPT ![l] = "free"]
    /\ UNCHANGED <<now, last_notification_time, notification_queue, ncur, nreq,
                   nwake, nextReq, reqBy, reqAt, reqAhead, appended, delivered>>

\* the clock advances
Tick ==
    /\ now < MaxTime
    /\ now' = now + 1
    /\ UNCHANGED <<last_notification_time, notification_queue, is_processing, npc,
                   ncur, nreq, nwake, nextReq, reqBy, reqAt, reqAhead, appended, delivered>>


(***************************************************************************)
(* SMSServer lifecycle (core/server.py).  A control thread calls start,    *)
(* stop, restart or force_quit; start runs the accept loop in the calling  *)
(* thread.  Sockets are numbered 1, 2, ...; 0 is None.                     *)
(***************************************************************************)
MaxCalls == 3           \* public method calls made in one run
MaxConn == 2            \* connections accepted in one run

\* the threads that call the public methods: the main thread, which runs
\* start() (main.py:80), and the control thread of the front end
Ctl == {1, 2}
Socks == 1..MaxCalls    \* a call creates at most one socket
NoSock == 0

LoopPcs == {"s48", "s51", "s52", "s52r"}
StartPcs == {"s39", "s40", "s43"}
StopPcs == {"p104", "p107", "p109", "p110"}

IsOpen(ss, x) == ss[x] \in {"new", "listening"}

\* The state of the lifecycle table that the fields and the running calls stand for
LState ==
    IF force_exit THEN "ForceExiting"
    ELSE IF \E t \in Ctl : tpc[t] \in StopPcs THEN "Stopping"
    ELSE IF running /\ \E t \in Ctl : tpc[t] \in LoopPcs THEN "Running"
    ELSE IF \E t \in Ctl : tpc[t] \in StartPcs \cup LoopPcs THEN "Starting"
    ELSE IF running THEN "Running"
    ELSE "Stopped"

\* A socket object nothing refers to any more is closed by its finalizer:
\* ref is self.server_socket, held the sockets that threads are blocked on.
Sweep(ss, ref, held) ==
    [x \in Socks |-> IF IsOpen(ss, x) /\ x # ref /\ \A t \in Ctl : held[t] # x
                     THEN "closed" ELSE ss[x]]

\* where a thread continues when stop() returns: restart goes on to line 120
AfterStop(t) == IF top[t] = "restart" THEN "r_sleep" ELSE "idle"

\* a public method is called on an idle thread (the first idle one: the
\* threads are interchangeable); the call is recorded with the state it is made in
Begin(t, method, next) ==
    /\ tpc[t] = "idle"
    /\ \A u \in Ctl : u < t => tpc[u] # "idle"
    /\ Len(calls) < MaxCalls
    /\ calls' = Append(calls, <<method, LState>>)
    /\ top' = [top EXCEPT ![t] = method]
    /\ tpc' = [tpc EXCEPT ![t] = next]
    /\ berr' = [berr EXCEPT ![t] = FALSE]
    /\ tret' = [tret EXCEPT ![t] = "-"]

\* server.py:35-36
SetRunning ==
    /\ running' = TRUE
    /\ stats' = [stats EXCEPT !.start_time = now]

\* start() is called: server.py:35-36
StartCall(t) ==
    /\ Begin(t, "start", "s39")
    /\ SetRunning
    /\ UNCHANGED <<force_exit, server_socket, sockState, nextSock, tsock, portFree,
                   accepted>>

\* stop() is called: server.py:104
StopCall(t) ==
    /\ Begin(t, "stop", "p107")
    /\ running' = FALSE
    /\ UNCHANGED <<force_exit, server_socket, sockState, nextSock, tsock, portFree,
                   accepted, stats>>

\* restart() is called: server.py:118-119 and 104
RestartCall(t) ==
    /\ Begin(t, "restart", "p107")
    /\ running' = FALSE
    /\ UNCHANGED <<force_exit, server_socket, sockState, nextSock, tsock, portFree,
                   accepted, stats>>

\* force_quit() is called: server.py:125-126
ForceQuitCall(t) ==
    /\ Begin(t, "force_quit", "p104")
    /\ force_exit' = TRUE
    /\ UNCHANGED <<running, server_socket, sockState, nextSock, tsock, portFree,
                   accepted, stats>>

\* server.py:39
S39(t) ==
    /\ tpc[t] = "s39"
    /\ nextSock < MaxCalls
    /\ nextSock' = nextSock + 1
    /\ server_socket' = nextSock + 1
    /\ sockState' = Sweep([sockState EXCEPT ![nextSock + 1] = "new"], nextSock + 1, tsock)
    /\ tpc' = [tpc EXCEPT ![t] = "s40"]
    /\ UNCHANGED <<running, force_exit, top, tsock, calls, portFree, berr, tret, accepted, stats>>

\* server.py:40, outside the try: on None the AttributeError leaves start
\* (and restart) without running the finally clause
S40(t) ==
    /\ tpc[t] = "s40"
    /\ IF server_socket = NoSock
       THEN /\ tpc' = [tpc EXCEPT ![t] = "idle"]
            /\ top' = [top EXCEPT ![t] = "none"]
            /\ tret' = [tret EXCEPT ![t] = "AttributeError"]
       ELSE /\ tpc' = [tpc EXCEPT ![t] = "s43"]
            /\ UNCHANGED <<top, tret>>
    /\ UNCHANGED <<running, force_exit, server_socket, sockState, nextSock, tsock,
                   calls, portFree, berr, accepted, stats>>

OtherListening(x) == \E y \in Socks : y # x /\ sockState[y] = "listening"

\* server.py:43-45 and 71-72: bind and listen; a failure is caught and logged at
\* line 71-72, then the finally clause runs.
\* With SO_REUSEADDR, binding while another socket of this process listens on
\* the port succeeds on some platforms and fails on others.
CanBind(x) == x # NoSock /\ sockState[x] = "new" /\ portFree

\* S43 without SO_REUSEADDR: the port stays busy after a socket on it was closed
S43_NoReuse(t) ==
    /\ tpc[t] = "s43"
    /\ \/ /\ CanBind(server_socket)
          /\ \A y \in Socks : sockState[y] # "closed"
          /\ sockState' = [sockState EXCEPT ![server_socket] = "listening"]
          /\ tpc' = [tpc EXCEPT ![t] = "s48"]
          /\ UNCHANGED berr
       \/ /\ \/ ~CanBind(server_socket)
             \/ OtherListening(server_socket)
             \/ \E y \in Socks : sockState[y] = "closed"
          /\ tpc' = [tpc EXCEPT ![t] = "p104"]
          /\ berr' = [berr EXCEPT ![t] = TRUE]
          /\ UNCHANGED sockState
    /\ UNCHANGED <<running, force_exit, server_socket, nextSock, top, tsock, calls,
                   portFree, tret, accepted, stats>>

S43(t) ==
    /\ tpc[t] = "s43"
    /\ \/ /\ CanBind(server_socket)
          /\ sockState' = [sockState EXCEPT ![server_socket] = "listening"]
          /\ tpc' = [tpc EXCEPT ![t] = "s48"]
          /\ UNCHANGED berr
       \/ /\ ~CanBind(server_socket) \/ OtherListening(server_socket)
          /\ tpc' = [tpc EXCEPT ![t] = "p104"]
          /\ berr' = [berr EXCEPT ![t] = TRUE]
          /\ UNCHANGED sockState
    /\ UNCHANGED <<running, force_exit, server_socket, nextSock, top, tsock, calls,
                   portFree, tret, accepted, stats>>

\* server.py:48
S48(t) ==
    /\ tpc[t] = "s48"
    /\ tpc' = [tpc EXCEPT ![t] = IF running /\ ~force_exit THEN "s51" ELSE "p104"]
    /\ UNCHANGED <<running, force_exit, server_socket, sockState, nextSock, top, tsock,
                   calls, portFree, berr, tret, accepted, stats>>

\* server.py:51, and 66-69 when settimeout raises (None, or a closed socket)
S51(t) ==
    /\ tpc[t] = "s51"
    /\ tpc' = [tpc EXCEPT ![t] =
                 IF server_socket # NoSock /\ IsOpen(sockState, server_socket)
                 THEN "s52" ELSE "s48"]
    /\ UNCHANGED <<running, force_exit, server_socket, sockState, nextSock, top, tsock,
                   calls, portFree, berr, tret, accepted, stats>>

\* server.py:52: accept() is entered on the socket the attribute holds now; on
\* None, or on a socket that is not listening, it raises at once (line 66-69)
S52(t) ==
    /\ tpc[t] = "s52"
    /\ IF server_socket = NoSock \/ sockState[server_socket] # "listening"
       THEN /\ tpc' = [tpc EXCEPT ![t] = "s48"]
            /\ UNCHANGED tsock
       ELSE /\ tpc' = [tpc EXCEPT ![t] = "s52r"]
            /\ tsock' = [tsock EXCEPT ![t] = server_socket]
    /\ UNCHANGED <<running, force_exit, server_socket, sockState, nextSock, top, calls,
                   portFree, berr, tret, accepted, stats>>

AcceptOutcomes == {"connection", "timeout", "error"}

\* S52rOut where an error of accept() ends the loop, as if the handler of
\* lines 66-69 were outside the while
S52rOut_ErrorBreaks(t, out) ==
    /\ tpc[t] = "s52r"
    /\ IF out = "connection"
       THEN /\ sockState[tsock[t]] = "listening"
            /\ accepted < MaxConn
            /\ accepted' = accepted + 1
       ELSE UNCHANGED accepted
    /\ tsock' = [tsock EXCEPT ![t] = NoSock]
    /\ sockState' = Sweep(sockState, server_socket, tsock')
    /\ tpc' = [tpc EXCEPT ![t] = IF out = "error" THEN "p104" ELSE "s48"]
    /\ UNCHANGED <<running, force_exit, server_socket, nextSock, top, calls, portFree, berr, tret,
                   stats>>

\* server.py:52-69: accept() returns a connection (a handler thread is started,
\* lines 53-61), times out (63-65) or raises another error (66-69); the loop
\* goes back to line 48 in each case
S52rOut(t, out) ==
    /\ tpc[t] = "s52r"
    /\ IF out = "connection"
       THEN /\ sockState[tsock[t]] = "listening"
            /\ accepted < MaxConn
            /\ accepted' = accepted + 1
       ELSE UNCHANGED accepted
    /\ tsock' = [tsock EXCEPT ![t] = NoSock]
    /\ sockState' = Sweep(sockState, server_socket, tsock')
    /\ tpc' = [tpc EXCEPT ![t] = "s48"]
    /\ UNCHANGED <<running, force_exit, server_socket, nextSock, top, calls, portFree, berr, tret,
                   stats>>

S52r(t) == \E out \in AcceptOutcomes : S52rOut(t, out)

\* a call returns to its caller: stop, force_quit and start return None
Leave(t, to) ==
    /\ tpc' = [tpc EXCEPT ![t] = to]
    /\ top' = [top EXCEPT ![t] = IF to = "idle" THEN "none" ELSE top[t]]
    /\ tret' = [tret EXCEPT ![t] = IF to = "idle" THEN "None" ELSE tret[t]]

\* server.py:104
P104(t) ==
    /\ tpc[t] = "p104"
    /\ running' = FALSE
    /\ tpc' = [tpc EXCEPT ![t] = "p107"]
    /\ UNCHANGED <<force_exit, server_socket, sockState, nextSock, top, tsock, calls,
                   portFree, berr, tret, accepted, stats>>

\* server.py:107, and 114 when there is no socket
P107(t) ==
    /\ tpc[t] = "p107"
    /\ IF server_socket # NoSock
       THEN tpc' = [tpc EXCEPT ![t] = "p109"] /\ UNCHANGED <<top, tret>>
       ELSE Leave(t, AfterStop(t))
    /\ UNCHANGED <<running, force_exit, server_socket, sockState, nextSock, tsock,
                   calls, portFree, berr, accepted, stats>>

\* P109 without the except clause of lines 111-112
P109_NoExcept(t) ==
    /\ tpc[t] = "p109"
    /\ IF server_socket # NoSock
       THEN /\ sockState' = [sockState EXCEPT ![server_socket] = "closed"]
            /\ tpc' = [tpc EXCEPT ![t] = "p110"]
            /\ UNCHANGED <<top, tret>>
       ELSE /\ tpc' = [tpc EXCEPT ![t] = "idle"]
            /\ top' = [top EXCEPT ![t] = "none"]
            /\ tret' = [tret EXCEPT ![t] = "AttributeError"]
            /\ UNCHANGED sockState
    /\ UNCHANGED <<running, force_exit, server_socket, nextSock, tsock, calls,
                   portFree, berr, accepted, stats>>

\* server.py:109, and 111-112 when the attribute has become None
P109(t) ==
    /\ tpc[t] = "p109"
    /\ IF server_socket # NoSock
       THEN /\ sockState' = [sockState EXCEPT ![server_socket] = "closed"]
            /\ tpc' = [tpc EXCEPT ![t] = "p110"]
            /\ UNCHANGED <<top, tret>>
       ELSE /\ Leave(t, AfterStop(t))
            /\ UNCHANGED sockState
    /\ UNCHANGED <<running, force_exit, server_socket, nextSock, tsock, calls,
                   portFree, berr, accepted, stats>>

\* P110 that forgets to clear the attribute
P110_KeepSocket(t) ==
    /\ tpc[t] = "p110"
    /\ Leave(t, AfterStop(t))
    /\ UNCHANGED <<running, force_exit, server_socket, sockState, nextSock, tsock,
                   calls, portFree, berr, accepted, stats>>

\* server.py:110
P110(t) ==
    /\ tpc[t] = "p110"
    /\ server_socket' = NoSock
    /\ sockState' = Sweep(sockState, NoSock, tsock)
    /\ Leave(t, AfterStop(t))
    /\ UNCHANGED <<running, force_exit, nextSock, tsock, calls, portFree, berr, accepted,
                   stats>>

\* server.py:120-121 and 35-36: the settle delay is over, start() begins
RSleep(t) ==
    /\ tpc[t] = "r_sleep"
    /\ tpc' = [tpc EXCEPT ![t] = "s39"]
    /\ top' = [top EXCEPT ![t] = "restart_start"]
    /\ SetRunning
    /\ UNCHANGED <<force_exit, server_socket, sockState, nextSock, tsock, calls,
                   portFree, berr, tret, accepted>>

(***************************************************************************)
(* process_message (up to the dispatch) and extract_first_long_number      *)
(* called on every text of a bounded length over a small alphabet.         *)
(***************************************************************************)
MaxParseLen == 5        \* length of the texts passed to process_message
MaxDigitLen == 8        \* length of the texts passed to extract_first_long_number

Texts(alphabet, n) == UNION {[1..k -> alphabet] : k \in 0..n}
ParseTexts == Texts({" ", "{", "}", ".", "a"}, MaxParseLen)
DigitTexts == Texts({"0", "7", "a"}, MaxDigitLen)

\* message_processor.py:28-41: match is what _split_string_at_first_dot gave,
\* dispatched whether _handle_message_type was called
ParseCall ==
    /\ pfun = "-"
    /\ ptext \in ParseTexts
    /\ pfun' = "process_message"
    /\ pout' = [match |-> ParseMessage(ptext), dispatched |-> ParseMessage(ptext) # None]
    /\ UNCHANGED ptext

\* utils.py:27-33
ExtractCall ==
    /\ pfun = "-"
    /\ ptext \in DigitTexts
    /\ pfun' = "extract_first_long_number"
    /\ pout' = extract_first_long_number(ptext)
    /\ UNCHANGED ptext

\* no text function is called in the other specifications
GhostInit ==
    /\ late = {}
    /\ errAt = -1
    /\ gen = [run |-> 0, of |-> [t \in Ctl |-> 0], sock |-> [x \in Socks |-> 0]]
TextInit == ptext = <<>> /\ pfun = "-" /\ pout = None
\* the text of the call is any of the bounded texts
TextDraw == ptext \in ParseTexts \cup DigitTexts /\ pfun = "-" /\ pout = None
TextNext ==
    (ParseCall \/ ExtractCall) /\ UNCHANGED <<statsVars, notifyVars, lifeVars, mainVars, ghostVars>>

(***************************************************************************)
(* The entry points (main.py, main_tray.py): the port is taken from the    *)
(* command line or from the configuration file, tested, and the server is  *)
(* started on it.  A value is <<"int", n>>, <<"str">> for a JSON string,   *)
(* or <<"none">> when it is absent.                                        *)
(***************************************************************************)
MaxPort == 65535        \* main.py:70
DefaultPort == 65432    \* config_manager.py:73
PortMargin == 2         \* the ports tried lie this close to the ends of the range

Absent == <<"none">>
PortInts ==
    ((1 - PortMargin)..(1 + PortMargin))
        \cup ((MaxPort - PortMargin)..(MaxPort + PortMargin))
        \cup {DefaultPort}
ArgPorts == {<<"int", n>> : n \in PortInts} \cup {Absent}
CfgPorts == {<<"int", n>> : n \in PortInts} \cup {Absent, <<"str">>}

IsInt(v) == v[1] = "int"
\* main.py:62 `if args.port:` None and 0 are false
Truthy(v) == IsInt(v) /\ v[2] # 0
\* main.py:70, config_manager.py:74
InRange(n) == ~(n < 1 \/ n > MaxPort)
Abort == <<"return", 1>>
Raised == <<"TypeError">>
Started(n) == <<"start", n>>

\* config_manager.py:71-77
get_port(cfg) ==
    IF cfg = Absent THEN DefaultPort
    ELSE IF ~IsInt(cfg) \/ ~InRange(cfg[2]) THEN DefaultPort
    ELSE cfg[2]

\* main.py:62-78
main(arg, cfg) ==
    LET port == IF Truthy(arg) THEN arg[2] ELSE get_port(cfg)
    IN IF ~InRange(port) THEN Abort ELSE Started(port)

\* main_tray.py:503-553: the entry of the file is used as it is; a missing
\* entry gives 65432 (line 518-520), a string makes the comparison raise
main_tray(arg, cfg) ==
    LET port == IF Truthy(arg) THEN arg
                ELSE IF cfg = Absent THEN <<"int", DefaultPort>>
                ELSE cfg
    IN IF ~IsInt(port) THEN Raised
       ELSE IF ~InRange(port[2]) THEN Abort
       ELSE Started(port[2])

MainCall ==
    /\ mfun = "-"
    /\ argPort \in ArgPorts /\ cfgPort \in CfgPorts
    /\ mfun' = "main.py"
    /\ mout' = main(argPort, cfgPort)
    /\ UNCHANGED <<argPort, cfgPort>>

MainTrayCall ==
    /\ mfun = "-"
    /\ argPort \in ArgPorts /\ cfgPort \in CfgPorts
    /\ mfun' = "main_tray.py"
    /\ mout' = main_tray(argPort, cfgPort)
    /\ UNCHANGED <<argPort, cfgPort>>

\* no entry point runs in the other specifications
MainInit == argPort = Absent /\ cfgPort = Absent /\ mfun = "-" /\ mout = Absent
\* the command line and the configuration file are any of the bounded ones
MainDraw == argPort \in ArgPorts /\ cfgPort \in CfgPorts /\ mfun = "-" /\ mout = Absent
MainNext ==
    (MainCall \/ MainTrayCall)
        /\ UNCHANGED <<statsVars, notifyVars, lifeVars, textVars, ghostVars>>

(***************************************************************************)
(* Initial states                                                          *)
(***************************************************************************)
\* server.py:22-27; every handler has been started by the accept loop
HandlersInit ==
    /\ stats = InitStats
    /\ hpc = [h \in Handlers |-> "recv"]
    /\ hdata = [h \in Handlers |-> <<>>]
    /\ hkind = [h \in Handlers |-> None]
    /\ hsuffix = [h \in Handlers |-> None]
    /\ htmp = [h \in Handlers |-> 0]
    /\ hret = [h \in Handlers |-> FALSE]
    /\ connOpen = [h \in Handlers |-> TRUE]
    /\ clipboard = None
    /\ lastCopied = None
    /\ notes = <<>>
    /\ snaps = <<>>

\* notification_manager.py:17-21
NotifyInit ==
    /\ now = StartTime
    /\ last_notification_time = 0
    /\ notification_queue = <<>>
    /\ is_processing = FALSE
    /\ npc = [t \in NThreads |-> IF t \in Callers THEN "idle" ELSE "free"]
    /\ ncur = [t \in NThreads |-> 0]
    /\ nreq = [t \in NThreads |-> 0]
    /\ nwake = [t \in NThreads |-> 0]
    /\ nextReq = 0
    /\ reqBy = [r \in Reqs |-> 0]
    /\ reqAt = [r \in Reqs |-> 0]
    /\ reqAhead = [r \in Reqs |-> {}]
    /\ appended = <<>>
    /\ delivered = <<>>

HandlerStep ==
    \E h \in Handlers :
        \/ HRecv(h) \/ HTouch(h) \/ HParse(h)
        \/ HCallLoad(h) \/ HCallStore(h) \/ HCallNotify(h)
        \/ HSmsLoad(h) \/ HSmsStore(h) \/ HSmsCopy(h) \/ HSmsRecord(h) \/ HSmsNotify(h)
        \/ HClose(h)

NotifyStep ==
    \/ \E c \in Callers : NCall(c)
    \/ \E t \in NThreads :
        \/ NTime(t) \/ NCheck(t) \/ NAppend(t) \/ NSpawn(t) \/ NUpdate(t) \/ NShow(t)
    \/ \E l \in Loops :
        \/ PStart(l) \/ PWhile(l) \/ PTime(l) \/ PCheck(l) \/ PPop(l) \/ PWake(l)
        \/ PClear(l)
    \/ Tick


\* server.py:17-21
LifeInit ==
    /\ running = FALSE
    /\ force_exit = FALSE
    /\ server_socket = NoSock
    /\ sockState = [x \in Socks |-> "none"]
    /\ nextSock = 0
    /\ tpc = [t \in Ctl |-> "idle"]
    /\ top = [t \in Ctl |-> "none"]
    /\ tsock = [t \in Ctl |-> NoSock]
    /\ calls = <<>>
    /\ portFree \in BOOLEAN
    /\ accepted = 0
    /\ berr = [t \in Ctl |-> FALSE]
    /\ tret = [t \in Ctl |-> "-"]

LifeStep ==
    \E t \in Ctl :
        \/ StartCall(t) \/ StopCall(t) \/ RestartCall(t) \/ ForceQuitCall(t)
        \/ S39(t) \/ S40(t) \/ S43(t) \/ S48(t) \/ S51(t) \/ S52(t) \/ S52r(t)
        \/ P104(t) \/ P107(t) \/ P109(t) \/ P110(t) \/ RSleep(t)

Init == HandlersInit /\ NotifyInit /\ LifeInit /\ TextInit /\ MainInit /\ GhostInit
\* the server not yet constructed, and an entry point about to run
MainCallInit ==
    HandlersInit /\ NotifyInit /\ LifeInit /\ TextInit /\ MainDraw /\ GhostInit
\* the server as constructed, and a text about to be passed to a text function
TextCallInit ==
    HandlersInit /\ NotifyInit /\ LifeInit /\ TextDraw /\ MainInit /\ GhostInit

StatsNext ==
    /\ \/ HandlerStep /\ UNCHANGED snaps
       \/ Snapshot
    /\ UNCHANGED <<notifyVars, lifeVars, textVars, mainVars, ghostVars>>
NotifyNext == NotifyStep /\ UNCHANGED <<statsVars, lifeVars, textVars, mainVars, ghostVars>>
LifeNext ==
    LifeStep /\ UNCHANGED <<hpc, hdata, hkind, hsuffix, htmp, hret, connOpen,
                            clipboard, lastCopied, notes, snaps, notifyVars, textVars, mainVars, ghostVars>>

\* The server serving: start() is called, the accept loop runs, and handler h is
\* the thread started at server.py:56-61 for the h-th accepted connection.
ServeStep ==
    \E t \in Ctl :
        \/ StartCall(t)
        \/ S39(t) \/ S40(t) \/ S43(t) \/ S48(t) \/ S51(t) \/ S52(t) \/ S52r(t)
        \/ P104(t) \/ P107(t) \/ P109(t) \/ P110(t)

StartedHandlerStep ==
    \E h \in Handlers :
        /\ h <= accepted
        /\ \/ HRecv(h) \/ HTouch(h) \/ HParse(h)
           \/ HCallLoad(h) \/ HCallStore(h) \/ HCallNotify(h)
           \/ HSmsLoad(h) \/ HSmsStore(h) \/ HSmsCopy(h) \/ HSmsRecord(h) \/ HSmsNotify(h)
           \/ HClose(h)

ServeNext ==
    \/ ServeStep /\ UNCHANGED <<hpc, hdata, hkind, hsuffix, htmp, hret, connOpen,
                                clipboard, lastCopied, notes, snaps, notifyVars, textVars, mainVars, ghostVars>>
    \/ StartedHandlerStep /\ UNCHANGED <<snaps, notifyVars, lifeVars, textVars, mainVars, ghostVars>>

\* The server serving and being stopped: as ServeStep, with start() called on
\* a stopped server only, and stop() called from a control thread
\* (tray_manager.py:140-151) while handlers run.
StopServeStep ==
    \E t \in Ctl :
        \/ StartCall(t) /\ LState = "Stopped"
        \/ StopCall(t)
        \/ S39(t) \/ S40(t) \/ S43(t) \/ S48(t) \/ S51(t) \/ S52(t) \/ S52r(t)
        \/ P104(t) \/ P107(t) \/ P109(t) \/ P110(t)

\* The server serving while accept() raises errors: as StopServeStep, the
\* outcomes of accept() told apart
AcceptErrorStep ==
    \E t \in Ctl :
        \/ StartCall(t) /\ LState = "Stopped"
        \/ StopCall(t)
        \/ S39(t) \/ S40(t) \/ S43(t) \/ S48(t) \/ S51(t) \/ S52(t)
        \/ S52rOut(t, "connection") \/ S52rOut(t, "timeout")
        \/ P104(t) \/ P107(t) \/ P109(t) \/ P110(t)

\* accept() raises in thread t, the server running and the socket listening
ServingError(t) ==
    /\ tpc[t] = "s52r"
    /\ running /\ ~force_exit
    /\ sockState[tsock[t]] = "listening"

AcceptErrorNext ==
    \/ AcceptErrorStep
          /\ UNCHANGED <<hpc, hdata, hkind, hsuffix, htmp, hret, connOpen,
                         clipboard, lastCopied, notes, snaps, notifyVars,
                         textVars, mainVars, ghostVars>>
    \/ \E t \in Ctl :
          /\ S52rOut(t, "error")
          /\ errAt' = IF errAt = -1 /\ ServingError(t) THEN accepted ELSE errAt
          /\ UNCHANGED <<hpc, hdata, hkind, hsuffix, htmp, hret, connOpen,
                         clipboard, lastCopied, notes, snaps, notifyVars,
                         textVars, mainVars, late, gen>>
    \/ StartedHandlerStep /\ UNCHANGED <<snaps, notifyVars, lifeVars, textVars, mainVars, ghostVars>>

\* SpecLife with the start() executions numbered in the order of their first
\* statement (server.py:35), and every socket carrying the number of the
\* start() that created it (server.py:39)
StartsNow == {t \in Ctl : tpc[t] \in {"idle", "r_sleep"} /\ tpc'[t] = "s39"}
CreatesNow == {t \in Ctl : tpc[t] = "s39" /\ tpc'[t] = "s40"}
LifeGenNext ==
    /\ LifeStep
    /\ gen' = [run |-> IF StartsNow # {} THEN gen.run + 1 ELSE gen.run,
               of |-> [t \in Ctl |-> IF t \in StartsNow THEN gen.run + 1
                                                         ELSE gen.of[t]],
               sock |-> [x \in Socks |->
                           IF CreatesNow # {} /\ x = nextSock'
                           THEN gen.of[CHOOSE t \in CreatesNow : TRUE]
                           ELSE gen.sock[x]]]
    /\ UNCHANGED <<hpc, hdata, hkind, hsuffix, htmp, hret, connOpen,
                   clipboard, lastCopied, notes, snaps, notifyVars, textVars,
                   mainVars, late, errAt>>

\* a stop() call has returned and the server is not running
StopReturned ==
    /\ \E i \in 1..Len(calls) : calls[i][1] = "stop"
    /\ \A t \in Ctl : top[t] # "stop"
    /\ ~running

StopServeNext ==
    \/ StopServeStep /\ UNCHANGED <<hpc, hdata, hkind, hsuffix, htmp, hret, connOpen,
                                    clipboard, lastCopied, notes, snaps, notifyVars,
                                    textVars, mainVars, ghostVars>>
    \/ /\ StartedHandlerStep
       /\ late' = late \cup {h \in Handlers :
                                 hpc[h] = "recv" /\ hpc'[h] # "recv" /\ StopReturned}
       /\ UNCHANGED <<snaps, notifyVars, lifeVars, textVars, mainVars, errAt, gen>>

SpecStats == Init /\ [][StatsNext]_vars
SpecServe == Init /\ [][ServeNext]_vars
SpecNotify == Init /\ [][NotifyNext]_vars
SpecLife == Init /\ [][LifeNext]_vars
\* every thread that can run a statement eventually runs it and the clock
\* advances; nothing obliges a caller to make a further call
ThreadRun(t) ==
    \/ NTime(t) \/ NCheck(t) \/ NAppend(t) \/ NSpawn(t) \/ NUpdate(t) \/ NShow(t)
    \/ /\ t \in Loops
       /\ \/ PStart(t) \/ PWhile(t) \/ PTime(t) \/ PCheck(t) \/ PPop(t) \/ PWake(t)
          \/ PClear(t)
NotifyFairness ==
    /\ WF_vars(Tick /\ UNCHANGED <<statsVars, lifeVars, textVars, mainVars, ghostVars>>)
    /\ \A t \in NThreads :
          WF_vars(ThreadRun(t) /\ UNCHANGED <<statsVars, lifeVars, textVars, mainVars, ghostVars>>)
SpecNotifyFair == SpecNotify /\ NotifyFairness
SpecText == TextCallInit /\ [][TextNext]_vars
SpecStopServe == Init /\ [][StopServeNext]_vars
SpecAcceptError == Init /\ [][AcceptErrorNext]_vars
SpecMain == MainCallInit /\ [][MainNext]_vars
SpecLifeGen == Init /\ [][LifeGenNext]_vars


(***************************************************************************)
(* Properties                                                              *)
(***************************************************************************)
AllHandlersDone == \A h \in Handlers : hpc[h] = "done"
SmsHandlers == {h \in Handlers : hkind[h] = SMS}

\* C1: once all handlers have finished, get_stats shows sms_count equal to the
\* number of handlers that processed an SMS message: no increment is lost.
C1_NoLostIncrement ==
    AllHandlersDone => get_stats.sms_count = Cardinality(SmsHandlers)

LoopAlive(l) == npc[l] \notin {"free", "dead"}
AliveLoops == {l \in Loops : LoopAlive(l)}
NoEnqueueInProgress == \A c \in Callers : npc[c] = "idle"

\* C2: there is no state in which the queue is non-empty while no delivery loop
\* is running or being started and no show_notification call is in progress.
C2_NoStrandedRequest ==
    ~(notification_queue # <<>> /\ AliveLoops = {} /\ NoEnqueueInProgress)

\* C3: any two deliveries handed to the notifier are at least min_interval
\* apart (measured by the current_time each delivery recorded).
C3_MinSpacing ==
    \A i, j \in 1..Len(delivered) :
        i < j => delivered[j][2] - delivered[i][2] >= MinInterval

Issued == 1..nextReq
DeliveredAt(r) == {i \in 1..Len(delivered) : delivered[i][1] = r}
IsDelivered(r) == DeliveredAt(r) # {}
\* the calls made so far came from one caller within less than min_interval
InBurst ==
    /\ nextReq >= 1
    /\ \A r, q \in Issued : reqBy[r] = reqBy[q] /\ reqAt[r] - reqAt[q] < MinInterval

\* C4: when one caller makes its calls within less than min_interval on an idle
\* manager, the first request is delivered immediately and is never queued, the
\* others are queued, and the deliveries follow the call order, one per
\* min_interval.
C4_BurstFifo ==
    InBurst =>
        /\ 1 \notin Range(appended)
        /\ \A i \in DeliveredAt(1) : i = 1 /\ delivered[i][2] = reqAt[1]
        /\ \A r \in Issued : r # 1 /\ IsDelivered(r) => r \in Range(appended)
        /\ \A i, j \in 1..Len(delivered) :
              i < j => /\ delivered[i][1] < delivered[j][1]
                       /\ delivered[j][2] - delivered[i][2] >= MinInterval

\* C5: a request is never delivered before a request that was waiting in the
\* queue when its show_notification call was made.
C5_NoOvertake ==
    \A b \in Issued : \A a \in reqAhead[b] :
        \A j \in DeliveredAt(b) : \E i \in DeliveredAt(a) : i < j

\* C6: at most one _process_queue thread is alive at any time.
C6_OneLoop == Cardinality(AliveLoops) <= 1


Quiescent == \A t \in Ctl : tpc[t] = "idle"
NoOpenSocket == \A x \in Socks : ~IsOpen(sockState, x)
Listening == server_socket # NoSock /\ sockState[server_socket] = "listening"
\* thread t is past bind and listen and its accept loop is serving
Serving(t) == tpc[t] \in LoopPcs => running /\ Listening
StartStop == <<(<<"start", "Stopped">>), (<<"stop", "Running">>)>>
StartStopStart == Append(StartStop, <<"start", "Stopped">>)

\* C7: start on a stopped server followed by stop while the accept loop runs
\* ends with running False, server_socket None and the socket closed; a start
\* made after that binds (the port being free) and stays in its accept loop.
C7_StartStopStart ==
    /\ calls = StartStop /\ Quiescent =>
          ~running /\ server_socket = NoSock /\ NoOpenSocket
    /\ calls = StartStopStart /\ portFree =>
          \E t \in Ctl : /\ top[t] = "start"
                         /\ tpc[t] \in StartPcs \cup LoopPcs
                         /\ Serving(t)

C7_Witness ==
    /\ calls = StartStopStart
    /\ \E t \in Ctl : top[t] = "start" /\ tpc[t] = "s52r" /\ running /\ Listening
    /\ \E x \in Socks : sockState[x] = "closed"

\* C8: whenever running is False and no start or stop call is in progress,
\* server_socket is None and no socket of the server is open.
C8_StoppedNoSocket ==
    (~running /\ \A t \in Ctl : tpc[t] \in {"idle", "r_sleep"}) =>
        server_socket = NoSock /\ NoOpenSocket

C8_Witness ==
    /\ ~running /\ Quiescent /\ server_socket = NoSock
    /\ \E x \in Socks : sockState[x] = "closed"
    /\ \E i \in 1..Len(calls) : calls[i][1] = "stop" /\ calls[i][2] = "Running"

\* C9: at most one listening socket and at most one accept loop exist at any
\* time, whatever calls are made.
C9_OneSocketOneLoop ==
    /\ Cardinality({x \in Socks : sockState[x] = "listening"}) <= 1
    /\ Cardinality({t \in Ctl : tpc[t] \in LoopPcs}) <= 1

StartRestart == <<(<<"start", "Stopped">>), (<<"restart", "Running">>)>>

\* C10: restart on a running server (the port being free, no other call) does
\* not return, and once its start() is in the accept loop the server is running
\* with a listening socket.
C10_RestartEndsRunning ==
    calls = StartRestart /\ portFree =>
        \E t \in Ctl :
            /\ top[t] \in {"restart", "restart_start"}
            /\ top[t] = "restart_start" =>
                  tpc[t] \in StartPcs \cup LoopPcs /\ Serving(t)

ForceQuitCalled == \E i \in 1..Len(calls) : calls[i][1] = "force_quit"
\* force_quit has been called and has returned
ForceQuitDone == ForceQuitCalled /\ \A t \in Ctl : top[t] # "force_quit"

\* C11: once force_quit has returned, no step accepts a connection and no
\* thread passes the loop condition of line 48 into the accept loop body,
\* whatever start, restart or stop calls are made.
C11_ForceExitTerminal ==
    [][ForceQuitDone =>
          /\ accepted' = accepted
          /\ \A t \in Ctl : tpc[t] = "s48" => tpc'[t] # "s51"]_vars

\* the call thread t finished last raised an exception to its caller
RaisedToCaller(t) == tret[t] \notin {"-", "None"}

\* C12: when bind or listen failed in a start() call that has returned, the
\* caller got an error, and, no other call being in progress, the server is
\* stopped with server_socket None and no socket open.
C12_BindFailureReported ==
    \A t \in Ctl :
        tpc[t] = "idle" /\ berr[t] =>
            /\ RaisedToCaller(t)
            /\ Quiescent => ~running /\ server_socket = NoSock /\ NoOpenSocket

\* an increment of a counter has loaded the value and not yet stored it
MidIncrement(h) == hpc[h] \in {"sms_store", "call_store"}

\* the handlers whose increment of sms_count / call_count is complete
SmsIncremented == {h \in Handlers : hkind[h] = SMS /\ hpc[h] \in {"sms_copy", "sms_record", "sms_notify", "close", "done"}}
CallIncremented ==
    {h \in Handlers : hkind[h] = CALL /\ hpc[h] \in {"call_notify", "close", "done"}}

\* C13: get_stats is never executed while an increment of a counter is between
\* its load and its store, and the dict it returns shows each counter equal to
\* the number of increments completed at that instant.
C13_SnapshotExclusive ==
    [][Len(snaps') > Len(snaps) =>
          /\ \A h \in Handlers : ~MidIncrement(h)
          /\ snaps'[Len(snaps')].sms_count = Cardinality(SmsIncremented)
          /\ snaps'[Len(snaps')].call_count = Cardinality(CallIncremented)]_vars

\* C14: no step of a handler (or of get_stats) makes sms_count or call_count
\* smaller than it was.
C14_CountersMonotonic ==
    [][/\ stats'.sms_count >= stats.sms_count
       /\ stats'.call_count >= stats.call_count]_vars

\* data.decode('utf-8') succeeds
Decodes(d) == BadByte \notin Range(d)
\* the message process_message finds in the data of handler h
Msg(h) == ParseMessage(hdata[h])
WellFormed(h) == hdata[h] # <<>> /\ Decodes(hdata[h]) /\ Msg(h) # None
\* handler h has run to its end and no other handler has taken a step
Alone(h) == hpc[h] = "done" /\ \A g \in Handlers \ {h} : hpc[g] = "recv"
CodeOf(h) == extract_first_long_number(Msg(h)[2])
HasCode(h) == WellFormed(h) /\ Msg(h)[1] = SMS /\ CodeOf(h) # None

\* C15: after one SMS message whose payload contains a run of 4 or more digits
\* has been handled (pyperclip.copy not failing), the clipboard holds exactly
\* the extracted number, sms_count is 1, call_count is 0 and exactly one
\* notification was requested, of kind success, with the number in its title.
C15_SmsWithCode ==
    \A h \in Handlers :
        Alone(h) /\ HasCode(h) /\ hret[h] =>
            /\ clipboard = CodeOf(h)
            /\ lastCopied = CodeOf(h)
            /\ get_stats.sms_count = 1 /\ get_stats.call_count = 0
            /\ Len(notes) = 1
            /\ notes[1].kind = "success" /\ notes[1].title = CodeOf(h)

C15_Witness ==
    \E h \in Handlers :
        /\ Alone(h) /\ HasCode(h) /\ hret[h]
        /\ clipboard = <<"4", "8", "2", "9">>
        /\ stats.sms_count = 1

\* C16: after one CALL message has been handled, call_count is 1, exactly one
\* info notification naming the payload was requested, and the clipboard and
\* sms_count are as they were.
C16_CallEffects ==
    \A h \in Handlers :
        Alone(h) /\ WellFormed(h) /\ Msg(h)[1] = CALL =>
            /\ get_stats.call_count = 1 /\ get_stats.sms_count = 0
            /\ notes = <<Note("info", Msg(h)[2], Msg(h)[2])>>
            /\ clipboard = None /\ lastCopied = None

C16_Witness ==
    \E h \in Handlers :
        /\ Alone(h) /\ WellFormed(h) /\ Msg(h)[1] = CALL
        /\ stats.call_count = 1
        /\ Len(notes) = 1 /\ notes[1].body = <<"5", ".", "5">>

\* C17: after one well-formed message whose prefix is neither SMS nor CALL has
\* been handled, both counters are unchanged, no notification was requested and
\* the clipboard was not written.
C17_UnknownNoEffect ==
    \A h \in Handlers :
        Alone(h) /\ WellFormed(h) /\ Msg(h)[1] \notin {SMS, CALL} =>
            /\ get_stats.sms_count = 0 /\ get_stats.call_count = 0
            /\ notes = <<>>
            /\ clipboard = None /\ lastCopied = None

C17_Witness ==
    \E h \in Handlers :
        /\ Alone(h) /\ WellFormed(h)
        /\ Msg(h)[1] = <<"P", "I", "N", "G">>
        /\ ~connOpen[h] /\ ~hret[h]

\* parsing the data of handler h fails: bytes that are not UTF-8, or no dot
ParseFails(h) == hdata[h] # <<>> /\ (~Decodes(hdata[h]) \/ Msg(h) = None)

\* C18: after a message whose parsing fails has been handled, every field of
\* the stats dict, the clipboard and the notifications are as they were, and the
\* connection is closed.
C18_ParseFailureNoEffect ==
    \A h \in Handlers :
        Alone(h) /\ ParseFails(h) =>
            /\ get_stats = InitStats
            /\ clipboard = None /\ lastCopied = None
            /\ notes = <<>>
            /\ ~connOpen[h]

\* C19: a handler that has finished has closed its connection, whichever path
\* it took.
C19_AlwaysClosed == \A h \in Handlers : hpc[h] = "done" => ~connOpen[h]

\* three handlers have finished: one on a decode error, one on a failed
\* clipboard write and one on an unknown prefix
C19_Witness ==
    /\ AllHandlersDone
    /\ \E h \in Handlers : ~Decodes(hdata[h])
    /\ \E h \in Handlers : HasCode(h) /\ ~hret[h]
    /\ \E h \in Handlers : WellFormed(h) /\ Msg(h)[1] \notin {SMS, CALL}
    /\ \A h \in Handlers : ~connOpen[h]

\* the handlers that have made their call to a notification function
Notified ==
    {h \in Handlers : /\ WellFormed(h) /\ Msg(h)[1] \in {SMS, CALL}
                      /\ hpc[h] \in {"close", "done"}}

\* what a finished handler has done follows from its own message (and, for an
\* SMS with a code, from its own clipboard write)
OwnOutcome(h) ==
    IF ~WellFormed(h) \/ Msg(h)[1] \notin {SMS, CALL} THEN ~hret[h]
    ELSE IF Msg(h)[1] = CALL
    THEN hret[h] /\ Note("info", Msg(h)[2], Msg(h)[2]) \in Range(notes)
    ELSE IF CodeOf(h) = None
    THEN ~hret[h] /\ Note("error", None, None) \in Range(notes)
    ELSE \/ /\ hret[h]
            /\ Note("success", CodeOf(h), StripBraces(Msg(h)[2])) \in Range(notes)
         \/ ~hret[h] /\ Note("error", None, None) \in Range(notes)

\* a handler has failed: decode error, parse failure or clipboard failure
Failed(h) == hpc[h] = "done" /\ (ParseFails(h) \/ (HasCode(h) /\ ~hret[h]))

\* C20: whatever errors the handlers run into, a thread leaves the accept loop
\* only when running is False or force_exit is True, every finished handler
\* has the outcome that follows from its own message, and no notification of
\* another handler is lost or added.
C20_ErrorsContained ==
    /\ [][\A t \in Ctl :
            tpc[t] \in LoopPcs /\ tpc'[t] \notin LoopPcs => ~running \/ force_exit]_vars
    /\ [](\A h \in Handlers : hpc[h] = "done" => OwnOutcome(h))
    /\ [](Len(notes) = Cardinality(Notified))

\* the first connection's handler failed on a decode error, the accept loop
\* went on, accepted a second connection, and its handler succeeded
C20_Witness ==
    /\ accepted = 2
    /\ Failed(1) /\ ~Decodes(hdata[1])
    /\ hpc[2] = "done" /\ hret[2]
    /\ \E t \in Ctl : tpc[t] \in LoopPcs /\ running /\ Listening

\* the text process_message splits: trimmed, one enclosing brace pair removed
Cleaned(s) == StripBraces(Strip(s))

\* C21: for every text, process_message finds a message exactly when the
\* cleaned text contains a dot; the cleaned text is then the prefix, a dot and
\* the payload, the prefix holding no dot; without a dot nothing is dispatched.
C21_ParseAtFirstDot ==
    pfun = "process_message" =>
        LET c == Cleaned(ptext)
            m == pout.match
        IN /\ (m # None) <=> ("." \in Range(c))
           /\ m # None => /\ c = m[1] \o <<".">> \o m[2]
                          /\ "." \notin Range(m[1])
           /\ pout.dispatched <=> (m # None)

C21_Witness ==
    /\ pfun = "process_message"
    /\ ptext = <<"{", "a", ".", ".", "}">>
    /\ pout.match = <<(<<"a">>), (<<".">>)>>

DigitAt(s, k) == k \in 1..Len(s) /\ s[k] \in Digits
\* positions i..j of s are a run of digits that cannot be extended
MaxRun(s, i, j) ==
    /\ i <= j
    /\ \A k \in i..j : DigitAt(s, k)
    /\ ~DigitAt(s, i - 1) /\ ~DigitAt(s, j + 1)
LongRuns(s) ==
    {r \in (1..Len(s)) \X (1..Len(s)) : MaxRun(s, r[1], r[2]) /\ r[2] - r[1] + 1 >= 4}

NoCode(h) == WellFormed(h) /\ Msg(h)[1] = SMS /\ CodeOf(h) = None

\* C23: after one SMS message without a run of 4 or more digits has been
\* handled, sms_count is 1, exactly one notification was requested and it is an
\* error notification, the clipboard was not written, the dispatch gave False
\* and the handler has ended.
C23_SmsWithoutCode ==
    \A h \in Handlers :
        Alone(h) /\ NoCode(h) =>
            /\ get_stats.sms_count = 1 /\ get_stats.call_count = 0
            /\ notes = <<Note("error", None, None)>>
            /\ clipboard = None /\ lastCopied = None
            /\ ~hret[h]

C23_Witness ==
    \E h \in Handlers :
        /\ Alone(h) /\ NoCode(h)
        /\ hdata[h] = <<"{", "S", "M", "S", ".", "1", "2", "}">>
        /\ stats.sms_count = 1 /\ Len(notes) = 1

\* the only handler that ran found a code and the clipboard is still empty:
\* pyperclip.copy raised
WriteFailed(h) == Alone(h) /\ HasCode(h) /\ clipboard = None

\* C24: after one SMS message with a code has been handled and the clipboard
\* write failed, exactly one notification was requested and it is an error
\* notification, the dispatch gave False and the handler has ended without
\* writing the clipboard.
C24_ClipboardFailure ==
    \A h \in Handlers :
        WriteFailed(h) =>
            /\ notes = <<Note("error", None, None)>>
            /\ \A i \in 1..Len(notes) : notes[i].kind # "success"
            /\ lastCopied = None
            /\ ~hret[h]

C24_Witness ==
    \E h \in Handlers :
        /\ WriteFailed(h)
        /\ CodeOf(h) = <<"4", "8", "2", "9">>
        /\ Len(notes) = 1 /\ stats.sms_count = 1

\* C25: after a connection that sent nothing has been handled, it is closed,
\* every field of the statistics is as at construction, the clipboard was not
\* written and no notification was requested.
C25_EmptyReadNoEffect ==
    \A h \in Handlers :
        Alone(h) /\ hdata[h] = <<>> =>
            /\ ~connOpen[h]
            /\ stats = InitStats
            /\ clipboard = None /\ lastCopied = None
            /\ notes = <<>>

C25_Witness ==
    \E h \in Handlers :
        /\ Alone(h) /\ hdata[h] = <<>>
        /\ ~connOpen[h] /\ hkind[h] = None

\* C26: no request is handed to the notifier twice, whether the hand-over
\* succeeded or failed, and a thread that has handed a request over returns
\* from show_notification whatever the outcome: a caller is idle again, a
\* delivery loop goes to its sleep and then back to the test of the queue.
C26_DeliveredAtMostOnce ==
    /\ [](\A r \in Reqs : Cardinality(DeliveredAt(r)) <= 1)
    /\ [][\A t \in NThreads :
            npc[t] = "sn_show" /\ npc'[t] # "sn_show" =>
                /\ npc'[t] = Return(t)
                /\ notification_queue' = notification_queue]_vars

\* a queued request failed at the notifier and a later queued request was
\* handed over after it
C26_Witness ==
    \E i, j \in 1..Len(delivered) :
        /\ i < j
        /\ ~delivered[i][3]
        /\ delivered[i][1] \in Range(appended)
        /\ delivered[j][1] \in Range(appended)
        /\ delivered[i][1] # delivered[j][1]

\* every request made so far was handed to the notifier, the queue is empty and
\* the flag is cleared
Drained ==
    /\ \A r \in Issued : IsDelivered(r)
    /\ notification_queue = <<>>
    /\ ~is_processing
\* the clock of the model has stopped while a delivery loop is still running
ClockStopped == now = MaxTime /\ AliveLoops # {}

\* C27: with every thread and the clock scheduled fairly, the manager ends up
\* for good in a state where every request was handed over, the queue is empty
\* and is_processing is False (unless the model's clock stops a loop that is
\* still running); and is_processing goes from True to False only when the
\* queue is empty.
C27_EventuallyDrained ==
    /\ <>[](Drained \/ ClockStopped)
    /\ [][is_processing /\ ~is_processing' => notification_queue = <<>>]_vars

\* the last public call made is a stop() that has returned, and no restart is
\* on its way to its start(): no start has begun since that stop
StopCompleted ==
    /\ calls # <<>>
    /\ calls[Len(calls)][1] = "stop"
    /\ \A t \in Ctl : top[t] \notin {"stop", "restart", "restart_start"}

\* C28: once stop() has returned and as long as no start has begun, no accept
\* loop takes a connection (and so starts no handler), and no loop goes from
\* the test of line 48 into another round.
C28_NoAcceptAfterStop ==
    [][StopCompleted =>
          /\ accepted' = accepted
          /\ \A t \in Ctl : tpc[t] = "s48" => tpc'[t] # "s51"]_vars

\* the statements of handler h
HandlerRun(h) ==
    \/ HRecv(h) \/ HTouch(h) \/ HParse(h)
    \/ HCallLoad(h) \/ HCallStore(h) \/ HCallNotify(h)
    \/ HSmsLoad(h) \/ HSmsStore(h) \/ HSmsCopy(h) \/ HSmsRecord(h) \/ HSmsNotify(h)
    \/ HClose(h)
\* handler h was started and is the next to return from recv() or is past it
Unfinished(h) ==
    /\ h <= accepted
    /\ hpc[h] # "done"
    /\ \A g \in Handlers : g < h => hpc[g] # "recv"

\* C29: once stop() has returned and the server is not running, every handler
\* that was started and has not ended can still run its next statement, and a
\* handler whose recv() returned after that has, when it ends, closed its
\* connection and done what its message asks for (counter and notification).
C29_StopLeavesHandlers ==
    /\ \A h \in Handlers : StopReturned /\ Unfinished(h) => ENABLED HandlerRun(h)
    /\ \A h \in late :
          hpc[h] = "done" =>
              /\ ~connOpen[h]
              /\ OwnOutcome(h)
              /\ HasCode(h) => stats.sms_count >= 1

\* stop() returned while handler 1 was blocked in recv(); the handler then read
\* an SMS, counted it, copied the code and ended, the server still stopped
C29_Witness ==
    /\ 1 \in late
    /\ StopReturned
    /\ hpc[1] = "done" /\ HasCode(1) /\ hret[1]
    /\ stats.sms_count = 1
    /\ clipboard = CodeOf(1)

NoStopCalled == \A i \in 1..Len(calls) : calls[i][1] # "stop"

\* C30: whatever accept() gives (a connection, a timeout or another error) the
\* thread goes back to the test of line 48, from where it enters the next
\* round whenever the server is running and not forced to exit; and after an
\* error of accept() on a serving socket the server is still running with a
\* thread in its accept loop for as long as stop() has not been called.
C30_AcceptErrorKeepsLoop ==
    /\ [][\A t \in Ctl : tpc[t] = "s52r" /\ tpc'[t] # "s52r" => tpc'[t] = "s48"]_vars
    /\ [][\A t \in Ctl :
            tpc[t] = "s48" /\ tpc'[t] # "s48" /\ running /\ ~force_exit =>
                tpc'[t] = "s51"]_vars
    /\ [](errAt # -1 /\ NoStopCalled =>
            running /\ Listening /\ \E t \in Ctl : tpc[t] \in LoopPcs)

\* accept() raised an error while the server was running; a connection that
\* came after it was accepted and its handler has handled an SMS, the server
\* still running in its accept loop
C30_Witness ==
    /\ errAt # -1
    /\ accepted > errAt
    /\ hpc[errAt + 1] = "done" /\ HasCode(errAt + 1) /\ hret[errAt + 1]
    /\ NoStopCalled /\ running /\ Listening
    /\ \E t \in Ctl : tpc[t] \in LoopPcs

\* a start() call begins after an earlier stop() call was made
ReStart ==
    /\ Len(calls') = Len(calls) + 1
    /\ calls'[Len(calls')][1] = "start"
    /\ \E i \in 1..Len(calls) : calls[i][1] = "stop"

\* C31: a start() that follows a stop() records the time in start_time and
\* leaves sms_count and call_count at 0.
C31_ReStartResetsCounters ==
    [][ReStart => /\ stats'.start_time = now
                  /\ stats'.sms_count = 0
                  /\ stats'.call_count = 0]_vars

\* the port value the entry point was given lies outside 1..65535
OutOfRange(v) == IsInt(v) /\ ~InRange(v[2])
BadPortGiven == OutOfRange(argPort) \/ (argPort = Absent /\ OutOfRange(cfgPort))

\* C32: an entry point that was given a port outside 1..65535, on the command
\* line or (the command line giving none) in the configuration file, returns 1
\* and starts no server.
C32_BadPortAborts == mfun # "-" /\ BadPortGiven => mout = Abort

\* thread t is in the stop() of the finally clause of its start()
InFinallyStop(t) == top[t] \in {"start", "restart_start"} /\ tpc[t] \in StopPcs

\* C33: the stop() that start() runs in its finally clause sets running to
\* False only when the latest start() to have set it is its own, and closes
\* only a socket that its own start() or an earlier one created.
C33_FinallyStopOwnLifecycle ==
    [][\A t \in Ctl :
         InFinallyStop(t) =>
            /\ tpc[t] = "p104" /\ tpc'[t] = "p107" /\ running => gen.run = gen.of[t]
            /\ tpc[t] = "p109" /\ tpc'[t] = "p110" =>
                  gen.sock[server_socket] <= gen.of[t]]_vars

\* C34: the delivery loop never pops from an empty queue: whenever a loop is
\* about to execute pop(0) at line 116 the queue is non-empty, and so no loop
\* thread has died from the IndexError.
C34_NeverPopsEmpty ==
    \A l \in Loops : /\ npc[l] = "pq_pop" => notification_queue # <<>>
                     /\ npc[l] # "dead"

\* the handlers that got past the clipboard write of utils.py:102
Wrote == {h \in Handlers : hkind[h] = SMS /\ hret[h]}

\* C35: once all handlers have finished, and at least one of them wrote a code
\* to the clipboard, get_last_copied_code() is what the clipboard holds: the
\* value written to the clipboard last.
C35_LastCopiedIsClipboard ==
    AllHandlersDone /\ Wrote # {} => get_last_copied_code = clipboard

\* no handler other than h has taken a step
Only(h) == \A g \in Handlers \ {h} : hpc[g] = "recv"
SuccessNotes == {i \in 1..Len(notes) : notes[i].kind = "success"}

\* C36: within one SMS dispatch the steps come in this order: sms_count is
\* incremented, then the code is written to the clipboard, then the success
\* notification naming the code is requested.  So the clipboard is written only
\* when the count has been incremented, and a success notification naming c is
\* requested only when c has been written to the clipboard; for a dispatch
\* running alone the count is then 1 and the clipboard still holds c.
C36_SmsDispatchOrder ==
    /\ clipboard # None => stats.sms_count >= 1
    /\ SuccessNotes # {} => clipboard # None /\ lastCopied # None
    /\ \A h \in Handlers :
          Only(h) =>
            /\ clipboard # None => stats.sms_count = 1
            /\ \A i \in SuccessNotes : clipboard = notes[i].title

C36_Witness ==
    \E h \in Handlers :
        /\ Only(h) /\ hpc[h] = "close"
        /\ notes = <<Note("success", <<"5", "5", "5", "5">>, <<"5", "5", "5", "5">>)>>
        /\ clipboard = <<"5", "5", "5", "5">>
        /\ stats.sms_count = 1

\* the calls made so far are one start() at most, made first, and stop() calls
\* made when the server was stopped, running or stopping
OneStartThenStops ==
    \A i \in 1..Len(calls) :
        \/ calls[i][1] = "stop" /\ calls[i][2] \in {"Stopped", "Running", "Stopping"}
        \/ i = 1 /\ calls[i][1] = "start"
\* a stop(), called directly or from the finally clause of start(), returns
StopReturns(t) == tpc[t] \in StopPcs /\ tpc'[t] \notin StopPcs

\* C37: when stop() is called on a stopped server, on a running one, or while
\* another stop() is in progress (a second call, or the stop() of the exiting
\* accept loop), every stop() that returns leaves running False and
\* server_socket None, and a stop() call raises nothing to its caller.
C37_StopIdempotent ==
    [][\A t \in Ctl :
          OneStartThenStops /\ StopReturns(t) =>
             /\ ~running' /\ server_socket' = NoSock
             /\ top[t] = "stop" => tret'[t] = "None"]_vars

\* a start, a stop while the server was running, and another stop called while
\* a stop was still in progress have all returned
C37_Witness ==
    /\ calls = <<(<<"start", "Stopped">>), (<<"stop", "Running">>), (<<"stop", "Stopping">>)>>
    /\ \A t \in Ctl : tpc[t] = "idle"
    /\ ~running /\ server_socket = NoSock
    /\ \A t \in Ctl : ~RaisedToCaller(t)

====
